---- MODULE Spec2Model ----
(***************************************************************************)
(* Model of binary_expression_tree.py: the tokenizer get_symbols, the Node *)
(* tree, the builders BinaryExpressionTree.from_postfix and from_infix and *)
(* the renderers get_postfix and get_infix.                                *)
(*                                                                         *)
(* A Python str is a sequence of one-character strings; Python's zero-based*)
(* offsets are kept as they are, so text[i] of the code is text[i + 1]     *)
(* here.  A Node is a record [data, left, right]; None is the record None. *)
(***************************************************************************)
EXTENDS Integers, Sequences, FiniteSets, TLC

VARIABLES text, pc, builder, listed, tree, error, infix_text, postfix_text,
          source, prev, frames, ret

vars == <<text, pc, builder, listed, tree, error, infix_text, postfix_text,
          source, prev, frames, ret>>

(***************************************************************************)
(* Bounds of the model                                                     *)
(***************************************************************************)
\* longest text over the whole alphabet that the caller passes in
MaxLen == 4
\* largest number of operators in a generated well-formed infix expression
MaxOps == 2
\* largest number of operators in a generated expression without parentheses
MaxChain == 4

(***************************************************************************)
(* Characters and strings                                                  *)
(***************************************************************************)
Digits == {"1", "2", "3", "4", "5", "8"}

OperatorChars == {"/", "*", "+", "-"}

Chars == {"1", "2", "+", "-", "*", "/", "(", ")", " "}

\* str.isnumeric() on one character
IsNumeric(char) == char \in Digits

\* Python's None
None == [none |-> TRUE]

\* Node.__init__
Node(data, left, right) == [data |-> data, left |-> left, right |-> right]

\* BinaryExpressionTree.OPERATORS, a list of one-character strings
OPERATORS == << <<"/">>, <<"*">>, <<"+">>, <<"-">> >>

\* symbol in BinaryExpressionTree.OPERATORS
InOperators(symbol) == \E k \in 1..Len(OPERATORS) : OPERATORS[k] = symbol

\* operators.index(symbol), zero-based
OperatorIndex(symbol) == (CHOOSE k \in 1..Len(OPERATORS) : OPERATORS[k] = symbol) - 1

\* text[lo:hi] of Python for 0 <= lo, hi <= len(text)
Slice(s, lo, hi) == IF lo >= hi THEN <<>> ELSE SubSeq(s, lo + 1, hi)

\* needle in haystack, for two strings
IsSubstring(needle, haystack) ==
    \E lo \in 0..Len(haystack) : \E hi \in lo..Len(haystack) :
        Slice(haystack, lo, hi) = needle

(***************************************************************************)
(* get_symbols                                                             *)
(***************************************************************************)
\* the value symbol_index takes after a non-numeric character at offset i
NextSymbolIndexBug(i) == i

NextSymbolIndex(i) == i + 1

\* the pending number, yielded if there is one
YieldPending(symbol, symbol_index) ==
    IF symbol # <<>> THEN << <<symbol, symbol_index>> >> ELSE <<>>

\* the current character, yielded unless it is a space
YieldChar(char, i) ==
    IF char # " " THEN << << <<char>>, i >> >> ELSE <<>>

\* the loop of get_symbols from offset i on, with the locals symbol and
\* symbol_index; the result is the list of pairs (symbol, index) yielded
RECURSIVE GetSymbolsFrom(_, _, _, _)
GetSymbolsFrom(txt, i, symbol, symbol_index) ==
    IF i = Len(txt)
    THEN YieldPending(symbol, symbol_index)
    ELSE LET char == txt[i + 1] IN
         IF IsNumeric(char)
         THEN GetSymbolsFrom(txt, i + 1, Append(symbol, char), symbol_index)
         ELSE YieldPending(symbol, symbol_index)
              \o YieldChar(char, i)
              \o GetSymbolsFrom(txt, i + 1, <<>>, NextSymbolIndex(i))

\* list(get_symbols(text, indices=True))
GetSymbolsIndexed(txt) == GetSymbolsFrom(txt, 0, <<>>, 0)

\* list(get_symbols(text))
GetSymbols(txt) ==
    LET pairs == GetSymbolsIndexed(txt) IN [k \in 1..Len(pairs) |-> pairs[k][1]]

(***************************************************************************)
(* from_postfix                                                            *)
(***************************************************************************)
Ok(root) == [ok |-> TRUE, root |-> root, error |-> "none"]

Raise(exc) == [ok |-> FALSE, root |-> None, error |-> exc]

\* list.pop() of a non-empty stack: the stack that is left
Pop(stack) == SubSeq(stack, 1, Len(stack) - 1)

Top(stack) == stack[Len(stack)]

\* an operator that swaps the two operands it pops
ApplyOperatorSwapped(stack, symbol) ==
    IF Len(stack) < 2
    THEN [ok |-> FALSE, stack |-> stack]
    ELSE [ok |-> TRUE,
          stack |-> Append(Pop(Pop(stack)),
                           Node(symbol, Top(stack), Top(Pop(stack))))]

\* an operator that takes None for a missing operand instead of raising
ApplyOperatorLenient(stack, symbol) ==
    LET right == IF Len(stack) >= 1 THEN Top(stack) ELSE None
        rest == IF Len(stack) >= 1 THEN Pop(stack) ELSE stack
        left == IF Len(rest) >= 1 THEN Top(rest) ELSE None
        rest2 == IF Len(rest) >= 1 THEN Pop(rest) ELSE rest
    IN [ok |-> TRUE, stack |-> Append(rest2, Node(symbol, left, right))]

\* one operator symbol: root = Node(symbol); root.right = stack.pop();
\* root.left = stack.pop(); stack.append(root).  pop() of an empty list
\* raises IndexError.
ApplyOperator(stack, symbol) ==
    IF Len(stack) < 2
    THEN [ok |-> FALSE, stack |-> stack]
    ELSE [ok |-> TRUE,
          stack |-> Append(Pop(Pop(stack)),
                           Node(symbol, Top(Pop(stack)), Top(stack)))]

\* the for loop of from_postfix from the k-th symbol on
RECURSIVE PostfixLoop(_, _, _)
PostfixLoop(symbols, k, stack) ==
    IF k > Len(symbols)
    THEN [ok |-> TRUE, stack |-> stack]
    ELSE IF InOperators(symbols[k])
         THEN LET r == ApplyOperator(stack, symbols[k]) IN
              IF r.ok THEN PostfixLoop(symbols, k + 1, r.stack) ELSE r
         ELSE PostfixLoop(symbols, k + 1, Append(stack, Node(symbols[k], None, None)))

\* the return statement of from_postfix: BinaryExpressionTree(stack.pop())
PostfixReturn(stack) ==
    IF stack = <<>> THEN Raise("IndexError") ELSE Ok(Top(stack))

\* BinaryExpressionTree.from_postfix(text)
FromPostfix(txt) ==
    LET r == PostfixLoop(GetSymbols(txt), 1, <<>>) IN
    IF r.ok THEN PostfixReturn(r.stack) ELSE Raise("IndexError")

(***************************************************************************)
(* from_infix                                                              *)
(***************************************************************************)
\* lowest_operator_index is None or an offset: None is the empty tuple here
\* and the offset i is <<i>>, since an integer compares with integers only
NoIndex == <<>>

\* the locals of the scan before the loop
ScanInit ==
    [lowest_operator |-> -1,
     lowest_operator_index |-> NoIndex,
     brackets_level |-> 0,
     lowest_operator_brackets_level |-> -1]

\* a comparison that keeps the first of two equal candidates
IsLowerStrict(brackets_level, lowest_operator_brackets_level, index, lowest_operator) ==
    \/ brackets_level < lowest_operator_brackets_level
    \/ index > lowest_operator

\* "this operator has lower precedence if it is in fewer brackets or if it
\* has a lower BIDMAS precedence"
IsLower(brackets_level, lowest_operator_brackets_level, index, lowest_operator) ==
    \/ brackets_level < lowest_operator_brackets_level
    \/ index >= lowest_operator

\* the body of the scan loop for one pair (symbol, i)
ScanStep(st, symbol, i) ==
    IF symbol = <<"(">>
    THEN [st EXCEPT !.brackets_level = @ + 1]
    ELSE IF symbol = <<")">>
    THEN [st EXCEPT !.brackets_level = @ - 1]
    ELSE IF /\ \/ st.lowest_operator_brackets_level = -1
               \/ st.brackets_level <= st.lowest_operator_brackets_level
            /\ InOperators(symbol)
            /\ IsLower(st.brackets_level, st.lowest_operator_brackets_level,
                       OperatorIndex(symbol), st.lowest_operator)
    THEN [st EXCEPT !.lowest_operator = OperatorIndex(symbol),
                    !.lowest_operator_index = <<i>>,
                    !.lowest_operator_brackets_level = st.brackets_level]
    ELSE st

RECURSIVE ScanLoop(_, _, _)
ScanLoop(pairs, k, st) ==
    IF k > Len(pairs) THEN st
    ELSE ScanLoop(pairs, k + 1, ScanStep(st, pairs[k][1], pairs[k][2]))

\* "identify lowest operator": the locals after the loop
Scan(txt) == ScanLoop(GetSymbolsIndexed(txt), 1, ScanInit)

\* the symbols of text that are not in "()"
OperandSymbols(txt) ==
    SelectSeq(GetSymbols(txt), LAMBDA symbol : ~IsSubstring(symbol, <<"(", ")">>))

\* a left operand that keeps the operator character
LeftOperandBug(txt, lowest_operator_index) == Slice(txt, 0, lowest_operator_index + 1)

\* text[:lowest_operator_index]
LeftOperand(txt, lowest_operator_index) == Slice(txt, 0, lowest_operator_index)

\* text[lowest_operator_index + 1:]
RightOperand(txt, lowest_operator_index) ==
    Slice(txt, lowest_operator_index + 1, Len(txt))

\* operands built the wrong way round
InfixNodeSwapped(lowest_operator, left, right) ==
    Node(OPERATORS[lowest_operator + 1], right, left)

\* root = Node(operators[lowest_operator], left, right)
InfixNode(lowest_operator, left, right) ==
    Node(OPERATORS[lowest_operator + 1], left, right)

\* BinaryExpressionTree.from_infix(text).  With no operator and no operand
\* the code falls out of the loop and evaluates None + 1: TypeError.
RECURSIVE FromInfix(_)
FromInfix(txt) ==
    LET st == Scan(txt) IN
    IF st.lowest_operator_index = NoIndex
    THEN LET operands == OperandSymbols(txt) IN
         IF operands # <<>>
         THEN Ok(Node(operands[1], None, None))
         ELSE Raise("TypeError")
    ELSE LET left == FromInfix(LeftOperand(txt, st.lowest_operator_index[1])) IN
         IF ~left.ok THEN left
         ELSE LET right == FromInfix(RightOperand(txt, st.lowest_operator_index[1])) IN
              IF ~right.ok THEN right
              ELSE Ok(InfixNode(st.lowest_operator, left.root, right.root))

(***************************************************************************)
(* get_postfix and get_infix                                               *)
(***************************************************************************)
RECURSIVE GetPostfix(_)
GetPostfix(root) ==
    (IF root.left # None THEN GetPostfix(root.left) \o <<" ">> ELSE <<>>)
    \o (IF root.right # None THEN GetPostfix(root.right) \o <<" ">> ELSE <<>>)
    \o root.data

RECURSIVE GetInfix(_)
GetInfix(root) ==
    LET result ==
            (IF root.left # None THEN GetInfix(root.left) \o <<" ">> ELSE <<>>)
            \o root.data
            \o (IF root.right # None THEN <<" ">> \o GetInfix(root.right) ELSE <<>>)
    IN IF root.left # None \/ root.right # None
       THEN <<"(">> \o result \o <<")">>
       ELSE result

(***************************************************************************)
(* The texts a caller passes in                                            *)
(***************************************************************************)
\* every text of at most n characters
AnyText(n) == UNION {[1..k -> Chars] : k \in 0..n}

\* the well-formed infix expressions without spaces that hold at most n
\* operators, every operand written "1", each compound expression with and
\* without parentheses round it
RECURSIVE Exprs(_)
Exprs(n) ==
    IF n = 0 THEN {<<"1">>}
    ELSE LET plain == UNION {{a \o <<op>> \o b :
                                 a \in Exprs(i), b \in Exprs(n - 1 - i),
                                 op \in OperatorChars} : i \in 0..(n - 1)}
         IN Exprs(n - 1) \cup plain \cup {<<"(">> \o e \o <<")">> : e \in plain}

\* the expressions without parentheses that hold at most n operators
RECURSIVE Chains(_)
Chains(n) ==
    IF n = 0 THEN {<<"1">>}
    ELSE Chains(n - 1) \cup {c \o <<op, "1">> : c \in Chains(n - 1), op \in OperatorChars}

\* the operands written into a generated expression, from left to right
OperandNames == << <<"1">>, <<"2", "3">>, <<"4">>, <<"5">>, <<"8">> >>

\* expression e from offset i on, its k-th and later operands "1" replaced by
\* the k-th and later names of OperandNames, so that its operands differ
RECURSIVE Relabel(_, _, _)
Relabel(e, i, k) ==
    IF i = Len(e) THEN <<>>
    ELSE IF e[i + 1] = "1"
         THEN OperandNames[((k - 1) % Len(OperandNames)) + 1] \o Relabel(e, i + 1, k + 1)
         ELSE <<e[i + 1]>> \o Relabel(e, i + 1, k)

\* the expressions the documentation of the behaviour names
Examples ==
    {<<"1", "2", " ", "+", " ", "3", "4", "5">>,
     <<"2", " ", "+", " ", "3", " ", "*", " ", "4">>,
     <<"(", "2", " ", "+", " ", "3", ")", " ", "*", " ", "4">>,
     <<"8", " ", "-", " ", "3", " ", "-", " ", "2">>,
     <<"8", " ", "-", " ", "3", " ", "+", " ", "2">>,
     <<"3", " ", "4", " ", "+">>,
     <<"1", " ", "2", " ", "3", " ", "+">>}

Inputs ==
    AnyText(MaxLen)
    \cup {Relabel(e, 0, 1) : e \in Exprs(MaxOps) \cup Chains(MaxChain)}
    \cup Examples

(***************************************************************************)
(* The caller: one builder on a text, then get_infix and get_postfix of    *)
(* the tree, as main does; a rendering may be passed to a builder once     *)
(* more.                                                                   *)
(***************************************************************************)
NoPrev == [builder |-> "none", text |-> <<>>, infix |-> <<>>, postfix |-> <<>>]

Init ==
    /\ text \in Inputs
    /\ pc = "start"
    /\ builder = "none"
    /\ listed = <<>>
    /\ tree = None
    /\ error = "none"
    /\ infix_text = <<>>
    /\ postfix_text = <<>>
    /\ source = "caller"
    /\ prev = NoPrev
    /\ frames = <<>>
    /\ ret = None

\* listed = list(get_symbols(text, indices=True))
CallGetSymbols ==
    /\ pc = "start"
    /\ listed' = GetSymbolsIndexed(text)
    /\ pc' = "listed"
    /\ UNCHANGED <<text, builder, tree, error, infix_text, postfix_text, source,
                   prev, frames, ret>>

\* tree = BinaryExpressionTree.from_infix(text)
CallFromInfix ==
    /\ pc = "start"
    /\ LET r == FromInfix(text) IN
          /\ pc' = IF r.ok THEN "built" ELSE "raised"
          /\ tree' = r.root
          /\ error' = r.error
    /\ builder' = "from_infix"
    /\ UNCHANGED <<text, listed, infix_text, postfix_text, source, prev, frames, ret>>

\* tree = BinaryExpressionTree.from_postfix(text)
CallFromPostfix ==
    /\ pc = "start"
    /\ LET r == FromPostfix(text) IN
          /\ pc' = IF r.ok THEN "built" ELSE "raised"
          /\ tree' = r.root
          /\ error' = r.error
    /\ builder' = "from_postfix"
    /\ UNCHANGED <<text, listed, infix_text, postfix_text, source, prev, frames, ret>>

\* tree.get_infix()
CallGetInfix ==
    /\ pc = "built"
    /\ infix_text = <<>>
    /\ infix_text' = GetInfix(tree)
    /\ UNCHANGED <<text, pc, builder, listed, tree, error, postfix_text, source, prev,
                   frames, ret>>

\* tree.get_postfix()
CallGetPostfix ==
    /\ pc = "built"
    /\ infix_text # <<>>
    /\ postfix_text = <<>>
    /\ postfix_text' = GetPostfix(tree)
    /\ UNCHANGED <<text, pc, builder, listed, tree, error, infix_text, source, prev,
                   frames, ret>>

\* the caller takes a rendering of the tree as its next text
Feed(rendering, from) ==
    /\ pc = "built"
    /\ source = "caller"
    /\ infix_text # <<>>
    /\ postfix_text # <<>>
    /\ prev' = [builder |-> builder, text |-> text, infix |-> infix_text,
                postfix |-> postfix_text]
    /\ text' = rendering
    /\ source' = from
    /\ pc' = "start"
    /\ builder' = "none"
    /\ tree' = None
    /\ infix_text' = <<>>
    /\ postfix_text' = <<>>
    /\ UNCHANGED <<listed, error, frames, ret>>

FeedInfix == Feed(infix_text, "get_infix")

FeedPostfix == Feed(postfix_text, "get_postfix")

Next ==
    \/ CallGetSymbols
    \/ CallFromInfix
    \/ CallFromPostfix
    \/ CallGetInfix
    \/ CallGetPostfix
    \/ FeedInfix
    \/ FeedPostfix

Spec == Init /\ [][Next]_vars

(***************************************************************************)
(* from_infix call by call: frames is the stack of its invocations (the    *)
(* last is the running one) and ret the value a finished invocation hands  *)
(* to the one that called it.  A frame is at "scan" before its loop, at    *)
(* "left" while line 126 evaluates and at "right" while line 127 does.     *)
(***************************************************************************)
NewFrame(txt) ==
    [txt |-> txt, at |-> "scan", lowest_operator |-> -1,
     lowest_operator_index |-> NoIndex, left |-> None]

Running == frames[Len(frames)]

\* the running invocation is about to scan its text
AtScan ==
    /\ pc = "running"
    /\ frames # <<>>
    /\ ret = None
    /\ Running.at = "scan"

\* the call the running invocation made at "left" or "right" has returned
AtResume(at) ==
    /\ pc = "running"
    /\ frames # <<>>
    /\ ret # None
    /\ Running.at = at

\* the outermost invocation has returned
AtReturn ==
    /\ pc = "running"
    /\ frames = <<>>
    /\ ret # None

\* the caller calls BinaryExpressionTree.from_infix(text)
EnterFromInfix ==
    /\ pc = "start"
    /\ pc' = "running"
    /\ builder' = "from_infix"
    /\ frames' = <<NewFrame(text)>>
    /\ UNCHANGED <<text, listed, tree, error, infix_text, postfix_text, source,
                   prev, ret>>

\* no operator was found and the text holds an operand: lines 116-121
ScanLeaf ==
    /\ AtScan
    /\ Scan(Running.txt).lowest_operator_index = NoIndex
    /\ OperandSymbols(Running.txt) # <<>>
    /\ ret' = Node(OperandSymbols(Running.txt)[1], None, None)
    /\ frames' = Pop(frames)
    /\ UNCHANGED <<text, pc, builder, listed, tree, error, infix_text,
                   postfix_text, source, prev>>

\* no operator was found and the text holds no operand: line 125 adds 1 to
\* None, and the TypeError leaves every invocation
ScanRaise ==
    /\ AtScan
    /\ Scan(Running.txt).lowest_operator_index = NoIndex
    /\ OperandSymbols(Running.txt) = <<>>
    /\ frames' = <<>>
    /\ pc' = "raised"
    /\ error' = "TypeError"
    /\ UNCHANGED <<text, builder, listed, tree, infix_text, postfix_text,
                   source, prev, ret>>

\* an operator was found: lines 124-126 call from_infix on the left operand
ScanSplit ==
    /\ AtScan
    /\ LET st == Scan(Running.txt) IN
          /\ st.lowest_operator_index # NoIndex
          /\ frames' =
                Append([frames EXCEPT ![Len(frames)] =
                            [@ EXCEPT !.at = "left",
                                      !.lowest_operator = st.lowest_operator,
                                      !.lowest_operator_index = st.lowest_operator_index]],
                       NewFrame(LeftOperand(Running.txt, st.lowest_operator_index[1])))
    /\ UNCHANGED <<text, pc, builder, listed, tree, error, infix_text,
                   postfix_text, source, prev, ret>>

\* the left operand was built: line 127 calls from_infix on the right one
ResumeLeft ==
    /\ AtResume("left")
    /\ frames' =
          Append([frames EXCEPT ![Len(frames)] =
                      [@ EXCEPT !.at = "right", !.left = ret]],
                 NewFrame(RightOperand(Running.txt, Running.lowest_operator_index[1])))
    /\ ret' = None
    /\ UNCHANGED <<text, pc, builder, listed, tree, error, infix_text,
                   postfix_text, source, prev>>

\* the right operand was built: lines 130-132 return the operator's node
ResumeRight ==
    /\ AtResume("right")
    /\ ret' = InfixNode(Running.lowest_operator, Running.left, ret)
    /\ frames' = Pop(frames)
    /\ UNCHANGED <<text, pc, builder, listed, tree, error, infix_text,
                   postfix_text, source, prev>>

\* the outermost invocation returned to the caller
ReturnToCaller ==
    /\ AtReturn
    /\ tree' = ret
    /\ ret' = None
    /\ pc' = "built"
    /\ UNCHANGED <<text, builder, listed, error, infix_text, postfix_text,
                   source, prev, frames>>

NextCalls ==
    \/ EnterFromInfix
    \/ ScanLeaf
    \/ ScanRaise
    \/ ScanSplit
    \/ ResumeLeft
    \/ ResumeRight
    \/ ReturnToCaller

\* a call in progress takes its next step: the program is sequential and
\* nothing in it waits
SpecCalls == Init /\ [][NextCalls]_vars /\ WF_vars(NextCalls)

(***************************************************************************)
(* What the claims speak of                                                *)
(***************************************************************************)
\* a string of numeric characters only
IsNumber(symbol) == symbol # <<>> /\ \A k \in 1..Len(symbol) : symbol[k] \in Digits

\* how many of the first k symbols are operators
CountOperators(syms, k) == Cardinality({j \in 1..k : InOperators(syms[j])})

\* the number of nodes a stack holds after k symbols none of which failed:
\* every other symbol pushes one node, every operator replaces two by one
StackSizeAfter(syms, k) == (k - CountOperators(syms, k)) - CountOperators(syms, k)

\* an operator is reached while fewer than two nodes are on the stack
Underflows(txt) ==
    LET syms == GetSymbols(txt) IN
    \E k \in 1..Len(syms) : InOperators(syms[k]) /\ StackSizeAfter(syms, k - 1) < 2

\* the number of nodes left on the stack after the last symbol
LeftOnStack(txt) == LET syms == GetSymbols(txt) IN StackSizeAfter(syms, Len(syms))

\* every node is a leaf holding no operator or an operator with two children
RECURSIVE WellShaped(_)
WellShaped(node) ==
    \/ /\ node.left = None
       /\ node.right = None
       /\ ~InOperators(node.data)
    \/ /\ node.left # None
       /\ node.right # None
       /\ InOperators(node.data)
       /\ WellShaped(node.left)
       /\ WellShaped(node.right)

TokenizerExample == <<"1", "2", " ", "+", " ", "3", "4", "5">>

\* C8: get_symbols(text, indices=True) yields, from left to right, the
\* maximal runs of numeric characters and every other character that is not
\* a space, each with the offset of its first character: every yielded
\* symbol is the slice of text at its index, none is empty or a space, the
\* symbols do not overlap, a number is not continued on either side, every
\* character that is not a space lies in a yielded symbol, and "12 + 345"
\* yields "12", "+", "345" at 0, 3, 5.
C8_SymbolsAndIndices ==
    pc = "listed" =>
        /\ \A k \in 1..Len(listed) :
              LET s == listed[k][1]
                  i == listed[k][2]
              IN /\ s # <<>>
                 /\ s # <<" ">>
                 /\ i >= 0
                 /\ i + Len(s) <= Len(text)
                 /\ Slice(text, i, i + Len(s)) = s
                 /\ \/ Len(s) = 1 /\ ~IsNumeric(s[1])
                    \/ /\ IsNumber(s)
                       /\ i > 0 => ~IsNumeric(text[i])
                       /\ i + Len(s) < Len(text) => ~IsNumeric(text[i + Len(s) + 1])
                 /\ k > 1 => listed[k - 1][2] + Len(listed[k - 1][1]) <= i
        /\ \A j \in 0..(Len(text) - 1) :
              text[j + 1] # " " =>
                  \E k \in 1..Len(listed) :
                      listed[k][2] <= j /\ j < listed[k][2] + Len(listed[k][1])
        /\ text = TokenizerExample =>
              listed = << << <<"1", "2">>, 0 >>, << <<"+">>, 3 >>,
                           << <<"3", "4", "5">>, 5 >> >>

\* C8 witness: the listed of "12 + 345" were listed, the second number
\* starting at offset 5
C8_Witness ==
    /\ pc = "listed"
    /\ text = TokenizerExample
    /\ Len(listed) = 3
    /\ listed[3][2] = 5

\* C6: when an operator is reached while the stack holds fewer than two
\* nodes, from_postfix raises (IndexError, from list.pop) and returns no tree
C6_UnderflowRaises ==
    (builder = "from_postfix" /\ Underflows(text)) =>
        (pc = "raised" /\ error = "IndexError" /\ tree = None)

\* C6 witness: from_postfix("+") has raised
C6_Witness ==
    /\ builder = "from_postfix"
    /\ text = <<"+">>
    /\ pc = "raised"

\* C7 as claimed: a postfix text that leaves more than one node on the stack
\* makes from_postfix raise instead of returning a tree
C7_LeftoverRaises ==
    (builder = "from_postfix" /\ ~Underflows(text) /\ LeftOnStack(text) > 1) =>
        pc = "raised"

\* C9: every tree a builder returns is made of leaves that hold no operator
\* and of operator nodes with two children
C9_TreesWellShaped ==
    (pc = "built" /\ builder \in {"from_postfix", "from_infix"}) => WellShaped(tree)

\* C9 witness: a builder returned a tree whose root and left child are
\* operator nodes
C9_Witness ==
    /\ pc = "built"
    /\ builder = "from_infix"
    /\ tree.left # None
    /\ tree.left.left # None
    /\ tree.right.left = None

\* the bracket depth in front of offset i: the "(" less the ")" before it
DepthAt(txt, i) ==
    Cardinality({j \in 1..i : txt[j] = "("}) - Cardinality({j \in 1..i : txt[j] = ")"})

\* every ")" closes an earlier "(" and every "(" is closed
Balanced(txt) ==
    /\ \A i \in 0..Len(txt) : DepthAt(txt, i) >= 0
    /\ DepthAt(txt, Len(txt)) = 0

OperatorOffsets(txt) == {i \in 0..(Len(txt) - 1) : txt[i + 1] \in OperatorChars}

\* the position of an operator character in the list [/, *, +, -]
Rank(char) == CHOOSE r \in 0..3 : OPERATORS[r + 1] = <<char>>

\* the occurrence the claim names: smallest depth, then greatest position in
\* the list, then rightmost
ExpectedRootOffset(txt) ==
    CHOOSE i \in OperatorOffsets(txt) :
        \A j \in OperatorOffsets(txt) :
            \/ DepthAt(txt, i) < DepthAt(txt, j)
            \/ /\ DepthAt(txt, i) = DepthAt(txt, j)
               /\ \/ Rank(txt[i + 1]) > Rank(txt[j + 1])
                  \/ Rank(txt[i + 1]) = Rank(txt[j + 1]) /\ i >= j

PrecedenceExample == <<"2", " ", "+", " ", "3", " ", "*", " ", "4">>

ParenthesesExample == <<"(", "2", " ", "+", " ", "3", ")", " ", "*", " ", "4">>

\* C1: for a text with balanced parentheses and an operator, the root of the
\* tree from_infix returns holds the operator occurrence of smallest bracket
\* depth, then greatest position in [/, *, +, -], then rightmost, and its
\* subtrees are the trees of the text before and after that occurrence;
\* "2 + 3 * 4" renders as postfix "2 3 4 * +", "(2 + 3) * 4" as "2 3 + 4 *".
C1_RootIsLowestOperator ==
    (builder = "from_infix" /\ pc = "built") =>
        /\ (Balanced(text) /\ OperatorOffsets(text) # {}) =>
              LET i == ExpectedRootOffset(text) IN
              /\ tree.data = <<text[i + 1]>>
              /\ tree.left = FromInfix(Slice(text, 0, i)).root
              /\ tree.right = FromInfix(Slice(text, i + 1, Len(text))).root
        /\ (text = PrecedenceExample /\ postfix_text # <<>>) =>
              postfix_text = <<"2", " ", "3", " ", "4", " ", "*", " ", "+">>
        /\ (text = ParenthesesExample /\ postfix_text # <<>>) =>
              postfix_text = <<"2", " ", "3", " ", "+", " ", "4", " ", "*">>

\* C1 witness: a tree was built from a text whose root operator stands
\* outside the parentheses that hold an operator of greater position in the
\* list, and was rendered as postfix
C1_Witness ==
    /\ builder = "from_infix"
    /\ pc = "built"
    /\ Balanced(text)
    /\ \E i, j \in OperatorOffsets(text) :
          /\ DepthAt(text, i) = 1
          /\ DepthAt(text, j) = 0
          /\ Rank(text[i + 1]) > Rank(text[j + 1])
          /\ ExpectedRootOffset(text) = j
          /\ tree.data = <<text[j + 1]>>
    /\ postfix_text # <<>>

\* the grammar E ::= number | E operator E | ( E ) over the symbols from the
\* k-th on, with the bracket depth and whether an operand is due
RECURSIVE Accepts(_, _, _, _)
Accepts(syms, k, operand_due, depth) ==
    IF k > Len(syms) THEN ~operand_due /\ depth = 0
    ELSE IF syms[k] = <<"(">> THEN operand_due /\ Accepts(syms, k + 1, TRUE, depth + 1)
    ELSE IF syms[k] = <<")">>
         THEN ~operand_due /\ depth > 0 /\ Accepts(syms, k + 1, FALSE, depth - 1)
    ELSE IF InOperators(syms[k]) THEN ~operand_due /\ Accepts(syms, k + 1, TRUE, depth)
    ELSE IF IsNumber(syms[k]) THEN operand_due /\ Accepts(syms, k + 1, FALSE, depth)
    ELSE FALSE

\* a syntactically valid infix expression: numbers, the four operators,
\* spaces and balanced parentheses
ValidInfix(txt) == Accepts(GetSymbols(txt), 1, TRUE, 0)

\* C2: for a valid infix expression E, from_infix(E) returns a tree, its
\* postfix rendering is accepted by from_postfix, and the tree that gives
\* has the infix rendering of from_infix(E)
C2_PostfixRoundTrip ==
    /\ (builder = "from_infix" /\ ValidInfix(text)) => pc # "raised"
    /\ (source = "get_postfix" /\ prev.builder = "from_infix"
           /\ ValidInfix(prev.text) /\ builder = "from_postfix") =>
          /\ pc = "built"
          /\ infix_text # <<>> => infix_text = prev.infix

\* C2 witness: the round trip was made for an expression with parentheses
\* and two operators and the second tree was rendered
C2_Witness ==
    /\ source = "get_postfix"
    /\ prev.builder = "from_infix"
    /\ ValidInfix(prev.text)
    /\ \E i \in 1..Len(prev.text) : prev.text[i] = "("
    /\ Cardinality(OperatorOffsets(prev.text)) >= 2
    /\ builder = "from_postfix"
    /\ infix_text # <<>>

\* C3: for a valid infix expression E, from_infix(E) returns a tree,
\* from_infix accepts its infix rendering, and the tree that gives renders
\* the same
C3_InfixIdempotent ==
    /\ (builder = "from_infix" /\ ValidInfix(text)) => pc # "raised"
    /\ (source = "get_infix" /\ prev.builder = "from_infix"
           /\ ValidInfix(prev.text) /\ builder = "from_infix") =>
          /\ pc = "built"
          /\ infix_text # <<>> => infix_text = prev.infix

\* C3 witness: the rendering of an expression with two operators, which
\* differs from the expression, was parsed and rendered again
C3_Witness ==
    /\ source = "get_infix"
    /\ prev.builder = "from_infix"
    /\ ValidInfix(prev.text)
    /\ Cardinality(OperatorOffsets(prev.text)) >= 2
    /\ prev.infix # prev.text
    /\ builder = "from_infix"
    /\ infix_text # <<>>

\* three numbers joined by two subtractions, no parentheses
IsSubtractionChain(txt) ==
    LET syms == GetSymbols(txt) IN
    /\ Len(syms) = 5
    /\ IsNumber(syms[1]) /\ IsNumber(syms[3]) /\ IsNumber(syms[5])
    /\ syms[2] = <<"-">> /\ syms[4] = <<"-">>

SubtractionExample == <<"8", " ", "-", " ", "3", " ", "-", " ", "2">>

\* C4 as claimed: a - b - c renders as "(a - (b - c))"
C4_ChainGroupsRight ==
    (builder = "from_infix" /\ IsSubtractionChain(text) /\ infix_text # <<>>) =>
        LET syms == GetSymbols(text) IN
        infix_text = <<"(">> \o syms[1] \o <<" ", "-", " ", "(">> \o syms[3]
                     \o <<" ", "-", " ">> \o syms[5] \o <<")", ")">>

\* C4 amended: a - b - c is built and renders as "((a - b) - c)"; "8 - 3 - 2"
\* renders as "((8 - 3) - 2)"
C4_ChainGroupsLeft ==
    (builder = "from_infix" /\ IsSubtractionChain(text)) =>
        /\ pc = "built"
        /\ infix_text # <<>> =>
              LET syms == GetSymbols(text) IN
              infix_text = <<"(", "(">> \o syms[1] \o <<" ", "-", " ">> \o syms[3]
                           \o <<")", " ", "-", " ">> \o syms[5] \o <<")">>

\* C4 witness: "8 - 3 - 2" was built and rendered as "((8 - 3) - 2)"
C4_Witness ==
    /\ builder = "from_infix"
    /\ text = SubtractionExample
    /\ infix_text = <<"(", "(", "8", " ", "-", " ", "3", ")", " ", "-", " ", "2", ")">>

\* numbers joined by operators, no parentheses
IsChain(syms) ==
    /\ Len(syms) % 2 = 1
    /\ \A k \in 1..Len(syms) :
          IF k % 2 = 1 THEN IsNumber(syms[k]) ELSE InOperators(syms[k])

\* the precedence of standard arithmetic: + and - below * and /
StandardPrecedence(symbol) == IF symbol \in {<<"+">>, <<"-">>} THEN 1 ELSE 2

\* the tree of standard arithmetic for a chain: the root is the last
\* operator of the lowest precedence, so that equal precedence groups from
\* left to right
RECURSIVE StandardTree(_)
StandardTree(syms) ==
    IF Len(syms) = 1 THEN Node(syms[1], None, None)
    ELSE LET ops == {k \in 1..Len(syms) : k % 2 = 0}
             k == CHOOSE a \in ops : \A b \in ops :
                      \/ StandardPrecedence(syms[a]) < StandardPrecedence(syms[b])
                      \/ /\ StandardPrecedence(syms[a]) = StandardPrecedence(syms[b])
                         /\ a >= b
         IN Node(syms[k], StandardTree(SubSeq(syms, 1, k - 1)),
                 StandardTree(SubSeq(syms, k + 1, Len(syms))))

\* C5 as claimed: for an expression without parentheses from_infix builds
\* the tree of standard arithmetic
C5_ChainIsStandardTree ==
    (builder = "from_infix" /\ IsChain(GetSymbols(text))) =>
        (pc = "built" /\ tree = StandardTree(GetSymbols(text)))

\* the text holds no symbol but parentheses: it is empty, or spaces only, or
\* parentheses and spaces only
OnlyParentheses(txt) ==
    \A k \in 1..Len(GetSymbols(txt)) : GetSymbols(txt)[k] \in {<<"(">>, <<")">>}

\* every invocation of from_infix works on a shorter text than its caller
FramesShrink ==
    \A k \in 2..Len(frames) : Len(frames[k].txt) < Len(frames[k - 1].txt)

\* an invocation on a text without operand and operator raises at once
NoOperandRaises ==
    (AtScan /\ OnlyParentheses(Running.txt)) =>
        (pc' = "raised" /\ error' = "TypeError" /\ frames' = <<>>)

\* the call by call run ends as FromInfix says
CallsAgreeWithFromInfix ==
    (builder = "from_infix" /\ pc \in {"built", "raised"}) =>
        LET r == FromInfix(text) IN
        /\ (pc = "built") = r.ok
        /\ tree = r.root
        /\ error = r.error

\* the steps an invocation has left at most: one on a text of length n takes
\* at most 4 * n + 1 steps, its scan, two calls on texts of n - 1 characters
\* together, and the two steps that resume it
StepsLeft(frame) ==
    IF frame.at = "scan" THEN 4 * Len(frame.txt) + 1
    ELSE IF frame.at = "left"
    THEN 4 * Len(RightOperand(frame.txt, frame.lowest_operator_index[1])) + 3
    ELSE 1

RECURSIVE SumStepsLeft(_, _)
SumStepsLeft(fs, k) == IF k = 0 THEN 0 ELSE StepsLeft(fs[k]) + SumStepsLeft(fs, k - 1)

\* the steps a call of from_infix has left at most
Variant ==
    IF pc = "start" THEN 4 * Len(text) + 3
    ELSE IF pc = "running" THEN 1 + SumStepsLeft(frames, Len(frames))
    ELSE 0

\* a step of the call is possible: the call is about to be made, or the
\* running invocation scans (one of ScanLeaf, ScanRaise and ScanSplit
\* applies to every text), resumes or returns
CanStep ==
    \/ pc = "start"
    \/ AtScan
    \/ AtResume("left")
    \/ AtResume("right")
    \/ AtReturn

\* C10: from_infix terminates on every text, with a tree or an error: every
\* recursive call is made on a strictly shorter text, an invocation whose
\* text holds no symbol but parentheses raises instead of recursing, and
\* every step of a call lowers a bound on the steps left, which is never
\* negative, while a step is possible as long as the call has not ended
C10_FromInfixTerminates ==
    /\ []FramesShrink
    /\ [][NoOperandRaises]_vars
    /\ [](Variant >= 0)
    /\ [][Variant' < Variant]_vars
    /\ [](pc \in {"built", "raised"} \/ CanStep)

\* C10 witness: an invocation three calls deep runs on an empty text
C10_Witness ==
    /\ pc = "running"
    /\ Len(frames) = 3
    /\ Running.at = "scan"
    /\ Running.txt = <<>>
    /\ frames[2].at = "right"

====
